---------------------------- MODULE Spec2Model ----------------------------
(***************************************************************************)
(* py2anki: static dependency extraction (py2anki/parse/parse.py), the     *)
(* pydantic entities (py2anki/parse/parsed_entities.py) and the            *)
(* ManagedModules context decorator (py2anki/parse/utils.py).              *)
(*                                                                         *)
(* Python strings are sequences of one-character strings, so that          *)
(* str.startswith and the f"{a}.{b}" joins are computed on characters:     *)
(* "p.b.g" is <<"p", ".", "b", ".", "g">>.                                 *)
(***************************************************************************)
EXTENDS Integers, Sequences, FiniteSets, TLC

VARIABLES
    \* ---- FileParser.parse_function, one ast.walk iteration per step ----
    tree,             \* the ast.FunctionDef being parsed (its nodes)
    todo,             \* ast.walk's deque of nodes still to yield
    local_functions,  \* parse_function's local_functions set
    fdeps,            \* function.dependencies
    wpc,              \* "walking" | "returned" | "idle"
    \* ---- parse_file, one top-level statement per step ----
    src,              \* the statements of the module being parsed
    parser,           \* the FileParser: file, imports, aliases
    spos,             \* index of the next statement NodeVisitor.visit reaches
    fpc,              \* "visiting" | "resolved" | "idle"
    \* ---- ParsedProject construction (model_post_init) ----
    fs,               \* the project directory: packages, initializers, modules
    pc,               \* the statement model_post_init has reached
    sys_modules,      \* sys.modules (the names registered)
    sys_path,         \* sys.path
    original_modules, \* ManagedModules.original_modules
    original_path,    \* ManagedModules.original_path
    queue,            \* parse_init's queue of package directories
    executed,         \* the packages whose initializer exec_module has run, in order
    aliases,          \* ParsedProject.aliases
    references,       \* ParsedProject.references: key -> entity
    files,            \* the ParsedFile objects, by path
    folders,          \* the ParsedFolder objects, by path
    stack,            \* parse_folder's call stack
    root_folder,      \* ParsedProject.root_folder (a path, or NoFolder)
    wi                \* _walk_and_map: index of the next file

walkVars == <<tree, todo, local_functions, fdeps, wpc>>
fileVars == <<src, parser, spos, fpc>>
sysVars == <<sys_modules, sys_path, original_modules, original_path>>
projVars == <<fs, pc, sysVars, queue, executed, aliases, references, files,
              folders, stack, root_folder, wi>>

vars == <<walkVars, fileVars, projVars>>

-----------------------------------------------------------------------------
(* Strings *)

Join(a, b) == a \o <<".">> \o b

\* str.startswith(prefix)
StartsWith(x, prefix) ==
    /\ Len(x) >= Len(prefix)
    /\ SubSeq(x, 1, Len(prefix)) = prefix

SELF == <<"s", "e", "l", "f">>
SelfDot == SELF \o <<".">>
UNKNOWN == <<"<", "u", "n", "k", "n", "o", "w", "n", ">">>

\* every sequence that lists the elements of the finite set S once
RECURSIVE SeqsOfSet(_)
SeqsOfSet(S) ==
    IF S = {} THEN {<<>>}
    ELSE UNION {{<<x>> \o s : s \in SeqsOfSet(S \ {x})} : x \in S}

RECURSIVE Dedup(_)
\* list(dict.fromkeys(v)): first occurrences, in order
Dedup(v) ==
    IF v = <<>> THEN <<>>
    ELSE LET front == Dedup(SubSeq(v, 1, Len(v) - 1))
             last == v[Len(v)]
         IN IF \E i \in 1..Len(front) : front[i] = last
            THEN front ELSE Append(front, last)

ensure_unique(v) == Dedup(v)

NoDuplicates(s) == \A i, j \in 1..Len(s) : s[i] = s[j] => i = j

Range(s) == {s[i] : i \in 1..Len(s)}

-----------------------------------------------------------------------------
(* Expressions: ast.Name, ast.Attribute, and any other expression node *)

Name(id) == <<"Name", id>>
Attribute(value, attr) == <<"Attribute", value, attr>>
OtherExpr == <<"Other">>

IsName(e) == e[1] = "Name"
IsAttribute(e) == e[1] = "Attribute"

RECURSIVE get_attribute_string(_)
\* the second definition of _get_attribute_string is the one bound on the class
get_attribute_string(node) ==
    IF IsName(node) THEN node[2]
    ELSE IF IsAttribute(node)
         THEN Join(get_attribute_string(node[2]), node[3])
         ELSE UNKNOWN

-----------------------------------------------------------------------------
(* Syntax trees of function definitions.  A tree is a sequence of nodes in *)
(* source (pre-)order; node 1 is the FunctionDef itself; parent is the     *)
(* index of the enclosing node.  kind "Other" is any node that is neither  *)
(* a FunctionDef nor a Call (Expr, If, Return, arguments, ...).            *)

NoExpr == <<"None">>

DefNode(name, parent) ==
    [kind |-> "FunctionDef", name |-> name, func |-> NoExpr, parent |-> parent]
CallNode(func, parent) ==
    [kind |-> "Call", name |-> <<>>, func |-> func, parent |-> parent]
OtherNode(parent) ==
    [kind |-> "Other", name |-> <<>>, func |-> NoExpr, parent |-> parent]

\* ast.iter_child_nodes: the children in source order
Children(t, i) ==
    LET RECURSIVE From(_)
        From(j) == IF j > Len(t) THEN <<>>
                   ELSE IF t[j].parent = i THEN <<j>> \o From(j + 1)
                   ELSE From(j + 1)
    IN From(i + 1)

RECURSIVE Ancestors(_, _)
Ancestors(t, i) ==
    IF i = 0 \/ t[i].parent = 0 THEN {}
    ELSE {t[i].parent} \cup Ancestors(t, t[i].parent)

-----------------------------------------------------------------------------
(* FileParser.parse_function *)

\* one iteration of "for child in ast.walk(node)"; dependencies.append does
\* not run the field validator, so nothing is de-duplicated here
WalkNode(st, child) ==
    IF child.kind = "FunctionDef"
    THEN [st EXCEPT !.local_functions = @ \cup {child.name}]
    ELSE IF child.kind = "Call"
    THEN IF IsName(child.func) /\ child.func[2] \notin st.local_functions
         THEN [st EXCEPT !.dependencies = Append(@, child.func[2])]
         ELSE IF IsAttribute(child.func)
              THEN [st EXCEPT !.dependencies =
                                  Append(@, get_attribute_string(child.func))]
              ELSE st
    ELSE st

RECURSIVE Walk(_, _)
\* ast.walk: todo = deque([node]); popleft, extend with the children, yield
Walk(t, q) ==
    IF q = <<>> THEN <<>>
    ELSE <<Head(q)>> \o Walk(t, Tail(q) \o Children(t, Head(q)))

RECURSIVE WalkAll(_, _, _)
WalkAll(t, order, st) ==
    IF order = <<>> THEN st
    ELSE WalkAll(t, Tail(order), WalkNode(st, t[Head(order)]))

ParsedFunction(name, dependencies) ==
    [name |-> name, dependencies |-> dependencies, dependency_refs |-> <<>>]

parse_function(t) ==
    ParsedFunction(t[1].name,
        WalkAll(t, Walk(t, <<1>>),
                [local_functions |-> {}, dependencies |-> <<>>]).dependencies)

-----------------------------------------------------------------------------
(* The function definitions the walk is checked on: every tree of at most  *)
(* MaxNodes nodes over these node shapes.  A Call sits under an expression *)
(* or another Call, a FunctionDef under a FunctionDef or a statement.      *)

MaxNodes == 5

gName == <<"g">>
fName == <<"f">>
mName == <<"m">>
SelfCall == Attribute(Name(SELF), mName)

NodeShapes(t, parent) ==
    {OtherNode(parent)}
    \cup (IF t[parent].kind \in {"Other", "Call"}
          THEN {CallNode(Name(gName), parent), CallNode(SelfCall, parent)}
          ELSE {})
    \cup (IF t[parent].kind \in {"Other", "FunctionDef"}
          THEN {DefNode(gName, parent)}
          ELSE {})

\* source order: a new node hangs off the last node or one of its ancestors
Extensions(t) ==
    UNION {{Append(t, n) : n \in NodeShapes(t, p)} :
              p \in {Len(t)} \cup Ancestors(t, Len(t))}

RECURSIVE TreesOfSize(_)
TreesOfSize(n) ==
    IF n = 1 THEN {<<DefNode(fName, 0)>>}
    ELSE UNION {Extensions(t) : t \in TreesOfSize(n - 1)}

AllTrees == UNION {TreesOfSize(n) : n \in 1..MaxNodes}

-----------------------------------------------------------------------------
(* parse_function as a state machine *)

WalkIdle ==
    /\ tree = <<>>
    /\ todo = <<>>
    /\ local_functions = {}
    /\ fdeps = <<>>
    /\ wpc = "idle"

WalkInit ==
    /\ tree \in AllTrees
    /\ todo = <<1>>
    /\ local_functions = {}
    /\ fdeps = <<>>
    /\ wpc = "walking"

WalkStep ==
    /\ wpc = "walking"
    /\ todo # <<>>
    /\ LET child == tree[Head(todo)]
           st == WalkNode([local_functions |-> local_functions,
                           dependencies |-> fdeps], child)
       IN /\ todo' = Tail(todo) \o Children(tree, Head(todo))
          /\ local_functions' = st.local_functions
          /\ fdeps' = st.dependencies
    /\ UNCHANGED <<tree, wpc>>
    /\ UNCHANGED <<fileVars, projVars>>

WalkReturn ==
    /\ wpc = "walking"
    /\ todo = <<>>
    /\ wpc' = "returned"
    /\ UNCHANGED <<tree, todo, local_functions, fdeps>>
    /\ UNCHANGED <<fileVars, projVars>>

\* names of the functions defined inside the body of the parsed function
InnerDefs(t) == {t[i].name : i \in {j \in 2..Len(t) : t[j].kind = "FunctionDef"}}

-----------------------------------------------------------------------------
(* Top-level statements of a module *)

NoName == <<>>

FunctionDefStmt(t) ==
    [stmt |-> "FunctionDef", tree |-> t, name |-> t[1].name, bases |-> <<>>,
     body |-> <<>>, module |-> <<>>, names |-> <<>>, level |-> 0]
\* body: the FunctionDef children of the class body, in order
ClassDefStmt(name, bases, body) ==
    [stmt |-> "ClassDef", tree |-> <<>>, name |-> name, bases |-> bases,
     body |-> body, module |-> <<>>, names |-> <<>>, level |-> 0]
\* names: ast.alias records [name, asname]
ImportStmt(names) ==
    [stmt |-> "Import", tree |-> <<>>, name |-> <<>>, bases |-> <<>>,
     body |-> <<>>, module |-> <<>>, names |-> names, level |-> 0]
ImportFromStmt(module, names, level) ==
    [stmt |-> "ImportFrom", tree |-> <<>>, name |-> <<>>, bases |-> <<>>,
     body |-> <<>>, module |-> module, names |-> names, level |-> level]

alias(name, asname) == [name |-> name, asname |-> asname]

-----------------------------------------------------------------------------
(* FileParser *)

\* a Python dict as a function; d[k] = v
DictSet(d, k, v) == (k :> v) @@ d

RECURSIVE JoinAll(_)
\* ".".join(segments)
JoinAll(segs) ==
    IF segs = <<>> THEN <<>>
    ELSE IF Len(segs) = 1 THEN segs[1]
    ELSE Join(JoinAll(SubSeq(segs, 1, Len(segs) - 1)), segs[Len(segs)])

\* filter(pred, list) for the list's members in the set keep
RECURSIVE FilterSeq(_, _)
FilterSeq(s, keep) ==
    IF s = <<>> THEN <<>>
    ELSE (IF Head(s) \in keep THEN <<Head(s)>> ELSE <<>>)
         \o FilterSeq(Tail(s), keep)

RECURSIVE Concat(_)
Concat(ss) == IF ss = <<>> THEN <<>> ELSE Head(ss) \o Concat(Tail(ss))

ParsedFile(path) ==
    [path |-> path, functions |-> <<>>, classes |-> <<>>,
     dependencies |-> <<>>, dependency_refs |-> <<>>]

\* FileParser.__init__; paths are kept relative to project_root, as the
\* sequence of their segments, a module's last segment without ".py"
FileParser(path, package_name) ==
    [file |-> ParsedFile(path), imports |-> <<>>, aliases |-> <<>>,
     package_name |-> package_name]

\* os.path.dirname applied import_level times to the relative path, the
\* separators replaced by dots, then f"{rel}.{relative_import}"
resolve_relative_import(ps, relative_import, import_level) ==
    LET keep == IF import_level >= Len(ps.file.path) THEN 0
                ELSE Len(ps.file.path) - import_level
    IN Join(JoinAll(SubSeq(ps.file.path, 1, keep)), relative_import)

visit_FunctionDef(ps, node) ==
    [ps EXCEPT !.file.functions = Append(@, parse_function(node.tree))]

ParsedClass(name, dependencies, methods, parent_classes) ==
    [name |-> name, dependencies |-> ensure_unique(dependencies),
     methods |-> methods, parent_classes |-> parent_classes,
     dependency_refs |-> <<>>]

\* as if the "self." filter were missing
KeepSelf(deps) == Range(deps)

NotSelf(deps) == {d \in Range(deps) : ~StartsWith(d, SelfDot)}

\* the loop over node.bases: a Name or an Attribute is rendered, any other
\* expression appends nothing
ParentClasses(bases) ==
    Concat([i \in 1..Len(bases) |->
              IF IsName(bases[i]) THEN <<bases[i][2]>>
              ELSE IF IsAttribute(bases[i])
                   THEN <<get_attribute_string(bases[i])>>
                   ELSE <<>>])

visit_ClassDef(ps, node) ==
    LET methods == [i \in 1..Len(node.body) |-> parse_function(node.body[i])]
        unpacked == Concat([i \in 1..Len(methods) |->
                       FilterSeq(methods[i].dependencies,
                                 NotSelf(methods[i].dependencies))])
        parent_classes == ParentClasses(node.bases)
    IN [ps EXCEPT !.file.classes =
           Append(@, ParsedClass(node.name, unpacked \o parent_classes,
                                 methods, parent_classes))]

RECURSIVE ImportNames(_, _)
\* visit_Import: ast.Import has no level, so only the else branch runs
ImportNames(ps, names) ==
    IF names = <<>> THEN ps
    ELSE LET a == Head(names)
             p1 == [ps EXCEPT !.imports = Append(@, a.name)]
             p2 == IF a.asname # NoName
                   THEN [p1 EXCEPT !.aliases = DictSet(@, a.asname, a.name)]
                   ELSE p1
         IN ImportNames(p2, Tail(names))

visit_Import(ps, node) == ImportNames(ps, node.names)

RECURSIVE ImportFromNames(_, _, _)
ImportFromNames(ps, prefix, names) ==
    IF names = <<>> THEN ps
    ELSE LET a == Head(names)
             full == Join(prefix, a.name)
             bound == IF a.asname # NoName THEN a.asname ELSE a.name
         IN ImportFromNames(
                [ps EXCEPT !.imports = Append(@, full),
                           !.aliases = DictSet(@, bound, full)],
                prefix, Tail(names))

visit_ImportFrom(ps, node) ==
    LET prefix == IF node.level # 0
                  THEN resolve_relative_import(ps, node.module, node.level)
                  ELSE node.module
    IN ImportFromNames(ps, prefix, node.names)

\* the in-place rewrite "dependencies[i] = self.aliases[import_str]"
RewriteDeps(deps, amap) ==
    [i \in 1..Len(deps) |->
        IF deps[i] \in DOMAIN amap THEN amap[deps[i]] ELSE deps[i]]

\* "Remove imports irrelevant to the package": x.startswith(package_name)
RelevantImports(imports, package_name) ==
    FilterSeq(imports, {x \in Range(imports) : StartsWith(x, package_name)})

RelevantAliases(amap, package_name) ==
    [k \in {a \in DOMAIN amap : StartsWith(amap[a], package_name)}
        |-> amap[k]]

\* everything of resolve_imports before the file's own list is set
ResolveEntities(ps) ==
    LET imports == RelevantImports(ps.imports, ps.package_name)
        amap == RelevantAliases(ps.aliases, ps.package_name)
        fns == ps.file.functions
        cls == ps.file.classes
        keep == Range(imports) \cup {fns[i].name : i \in 1..Len(fns)}
                               \cup {cls[i].name : i \in 1..Len(cls)}
        Resolve(e) == [e EXCEPT !.dependencies =
                          FilterSeq(RewriteDeps(@, amap),
                                    keep \cap Range(RewriteDeps(@, amap)))]
    IN [ps EXCEPT !.imports = imports, !.aliases = amap,
                  !.file.functions = [i \in 1..Len(fns) |-> Resolve(fns[i])],
                  !.file.classes = [i \in 1..Len(cls) |-> Resolve(cls[i])]]

AllDependencies(file) ==
    Concat([i \in 1..Len(file.functions) |-> file.functions[i].dependencies])
    \o Concat([i \in 1..Len(file.classes) |-> file.classes[i].dependencies])

\* the results resolve_imports can leave: list(set(all_dependencies)) lists
\* the set in an order the interpreter's string hashing decides
resolve_imports(ps) ==
    LET r == ResolveEntities(ps)
    IN {[r EXCEPT !.file.dependencies = order] :
           order \in SeqsOfSet(Range(AllDependencies(r.file)))}

visit(ps, node) ==
    IF node.stmt = "FunctionDef" THEN visit_FunctionDef(ps, node)
    ELSE IF node.stmt = "ClassDef" THEN visit_ClassDef(ps, node)
    ELSE IF node.stmt = "Import" THEN visit_Import(ps, node)
    ELSE visit_ImportFrom(ps, node)

RECURSIVE VisitAll(_, _)
VisitAll(ps, stmts) ==
    IF stmts = <<>> THEN ps ELSE VisitAll(visit(ps, Head(stmts)), Tail(stmts))

\* the files parse_file can return for a module's statements
parse_file(stmts, path, package_name) ==
    {ps.file : ps \in resolve_imports(
                          VisitAll(FileParser(path, package_name), stmts))}

-----------------------------------------------------------------------------
(* The modules parse_file is checked on: every sequence of at most         *)
(* MaxStmts statements out of StmtUniverse, parsed as p/m.py of package p. *)

MaxStmts == 3

pName == <<"p">>
qName == <<"q">>
pqName == <<"p", "q">>
bName == <<"b">>
xName == <<"x">>
yName == <<"y">>
nName == <<"n">>
AName == <<"A">>
BName == <<"B">>

PackageName == pName
ModulePath == <<pName, mName>>

RECURSIVE FlatBody(_, _)
FlatBody(t, calls) ==
    IF calls = <<>> THEN t
    ELSE FlatBody(t \o <<OtherNode(1), CallNode(Head(calls), Len(t) + 1)>>,
                  Tail(calls))

\* def name(): one expression statement per call, in order
FlatFn(name, calls) == FlatBody(<<DefNode(name, 0)>>, calls)

ImportUniverse ==
    { ImportFromStmt(Join(pName, bName), <<alias(xName, NoName)>>, 0),
      ImportFromStmt(Join(pName, bName), <<alias(xName, yName)>>, 0),
      ImportFromStmt(pqName, <<alias(xName, NoName)>>, 0),
      ImportFromStmt(qName, <<alias(xName, NoName)>>, 0),
      ImportFromStmt(bName, <<alias(xName, NoName)>>, 1),
      ImportStmt(<<alias(Join(pName, bName), yName)>>) }

FunctionUniverse ==
    { FunctionDefStmt(FlatFn(gName, <<>>)),
      FunctionDefStmt(FlatFn(fName, <<Name(gName)>>)),
      FunctionDefStmt(FlatFn(fName, <<Name(gName), Name(gName)>>)),
      FunctionDefStmt(FlatFn(fName, <<Name(xName), Name(yName)>>)) }

ClassUniverse ==
    { ClassDefStmt(AName, <<>>,
          <<FlatFn(mName, <<Name(gName)>>), FlatFn(nName, <<SelfCall>>)>>),
      ClassDefStmt(AName, <<Name(xName)>>,
          <<FlatFn(mName, <<Name(xName), Name(gName)>>),
            FlatFn(nName, <<Name(gName), SelfCall>>)>>),
      ClassDefStmt(BName, <<Attribute(Name(yName), AName), OtherExpr>>,
          <<FlatFn(mName, <<Name(gName), Name(gName)>>)>>) }

StmtUniverse == ImportUniverse \cup FunctionUniverse \cup ClassUniverse

Sources == UNION {[1..n -> StmtUniverse] : n \in 0..MaxStmts}

-----------------------------------------------------------------------------
(* parse_file as a state machine *)

FileIdle ==
    /\ src = <<>>
    /\ parser = <<>>
    /\ spos = 0
    /\ fpc = "idle"

FileInit ==
    /\ src \in Sources
    /\ parser = FileParser(ModulePath, PackageName)
    /\ spos = 1
    /\ fpc = "visiting"

Visiting(kind) ==
    /\ fpc = "visiting"
    /\ spos <= Len(src)
    /\ src[spos].stmt = kind

VisitFunctionDef ==
    /\ Visiting("FunctionDef")
    /\ parser' = visit_FunctionDef(parser, src[spos])
    /\ spos' = spos + 1
    /\ UNCHANGED <<src, fpc>>
    /\ UNCHANGED <<walkVars, projVars>>

VisitClassDef ==
    /\ Visiting("ClassDef")
    /\ parser' = visit_ClassDef(parser, src[spos])
    /\ spos' = spos + 1
    /\ UNCHANGED <<src, fpc>>
    /\ UNCHANGED <<walkVars, projVars>>

VisitImport ==
    /\ Visiting("Import")
    /\ parser' = visit_Import(parser, src[spos])
    /\ spos' = spos + 1
    /\ UNCHANGED <<src, fpc>>
    /\ UNCHANGED <<walkVars, projVars>>

VisitImportFrom ==
    /\ Visiting("ImportFrom")
    /\ parser' = visit_ImportFrom(parser, src[spos])
    /\ spos' = spos + 1
    /\ UNCHANGED <<src, fpc>>
    /\ UNCHANGED <<walkVars, projVars>>

ResolveImports ==
    /\ fpc = "visiting"
    /\ spos > Len(src)
    /\ parser' \in resolve_imports(parser)
    /\ fpc' = "resolved"
    /\ UNCHANGED <<src, spos>>
    /\ UNCHANGED <<walkVars, projVars>>

-----------------------------------------------------------------------------
(* The project directory.  A path is the sequence of its segments below    *)
(* project_root; RootDir is self.path.  fs.dirs maps each directory to its *)
(* initializer: init is "none" (no __init__.py), "ok" or "raises" (what    *)
(* exec_module does), exports is the module's __all__ after execution,     *)
(* each name with the object bound to it (item FALSE: no such attribute,   *)
(* or a falsy one) and that object's __module__ (NoName: it has none).     *)
(* fs.files maps each module path (without ".py") to its statements.       *)

RootDir == <<PackageName>>
ProjectRootEntry == <<"/", "r">>
SitePath == <<"/", "s">>
osName == <<"o", "s">>

NoFolder == <<>>

Initializer(init, exports) == [init |-> init, exports |-> exports]
export(name, item, module) == [name |-> name, item |-> item, module |-> module]

IsChild(parent, x) ==
    /\ Len(x) = Len(parent) + 1
    /\ SubSeq(x, 1, Len(parent)) = parent

SubDirs(d) == {x \in DOMAIN fs.dirs : IsChild(d, x)}
ModulesIn(d) == {x \in DOMAIN fs.files : IsChild(d, x)}

\* f"{current_pkg}.{subfolder}", from root_pkg = self.package_name
current_pkg(d) == JoinAll(<<PackageName>> \o Tail(d))

\* _pkg_from_path: os.path.relpath(path, project_root), separators to dots
pkg_from_path(d) == JoinAll(d)

\* a dotted module name and the packages above it, as the import system
\* registers them
DottedPrefixes(m) ==
    {SubSeq(m, 1, k) : k \in {k \in 1..Len(m) : k = Len(m) \/ m[k + 1] = "."}}

\* what executing an initializer leaves in sys.modules besides the package
\* itself: the modules its exported objects were imported from
Loaded(exports) ==
    UNION {DottedPrefixes(exports[i].module) :
              i \in {i \in 1..Len(exports) :
                        exports[i].item /\ exports[i].module # NoName}}

RECURSIVE CaptureModuleOnly(_, _, _)
\* as if full_path were the defining module, without the name
CaptureModuleOnly(al, d, exports) ==
    IF exports = <<>> THEN al
    ELSE LET e == Head(exports)
             short_path == Join(pkg_from_path(d), e.name)
         IN CaptureModuleOnly(
                IF e.item /\ e.module # NoName
                THEN DictSet(al, short_path, e.module) ELSE al,
                d, Tail(exports))

RECURSIVE CaptureExports(_, _, _)
\* the loop over all_contents in execute_and_capture
CaptureExports(al, d, exports) ==
    IF exports = <<>> THEN al
    ELSE LET e == Head(exports)
             short_path == Join(pkg_from_path(d), e.name)
             full_path == Join(e.module, e.name)
         IN CaptureExports(
                IF e.item /\ e.module # NoName
                THEN DictSet(al, short_path, full_path) ELSE al,
                d, Tail(exports))

\* as if __exit__ restored sys.modules only
RestoreModulesOnly ==
    /\ sys_modules' = original_modules
    /\ UNCHANGED <<sys_path, original_modules, original_path>>

\* ManagedModules.__exit__
RestoreModules ==
    /\ sys_modules' = original_modules
    /\ sys_path' = original_path
    /\ UNCHANGED <<original_modules, original_path>>

-----------------------------------------------------------------------------
(* ParsedProject.parse_init under @ManagedModules() *)

\* ManagedModules.__enter__, then the statements before the while loop
LoaderEnter ==
    /\ pc = "parse_init"
    /\ original_modules' = sys_modules
    /\ original_path' = sys_path
    /\ sys_path' = <<ProjectRootEntry>> \o sys_path
    /\ queue' = <<RootDir>>
    /\ pc' = "loader"
    /\ UNCHANGED <<fs, sys_modules, executed, aliases, references, files,
                   folders, stack, root_folder, wi>>
    /\ UNCHANGED <<walkVars, fileVars>>

\* a queued directory without __init__.py: nothing runs, nothing is queued
LoaderSkip ==
    /\ pc = "loader"
    /\ queue # <<>>
    /\ fs.dirs[Head(queue)].init = "none"
    /\ queue' = Tail(queue)
    /\ UNCHANGED <<fs, pc, sysVars, executed, aliases, references, files,
                   folders, stack, root_folder, wi>>
    /\ UNCHANGED <<walkVars, fileVars>>

\* as if the subfolders were put at the front of the queue
LoaderExecuteDepthFirst ==
    /\ pc = "loader"
    /\ queue # <<>>
    /\ LET d == Head(queue)
       IN /\ fs.dirs[d].init = "ok"
          /\ sys_modules' = sys_modules \cup {current_pkg(d)}
                                \cup Loaded(fs.dirs[d].exports)
          /\ executed' = Append(executed, d)
          /\ aliases' = CaptureExports(aliases, d, fs.dirs[d].exports)
          /\ \E listing \in SeqsOfSet(SubDirs(d)) :
                 queue' = listing \o Tail(queue)
    /\ UNCHANGED <<fs, pc, sys_path, original_modules, original_path,
                   references, files, folders, stack, root_folder, wi>>
    /\ UNCHANGED <<walkVars, fileVars>>

\* execute_and_capture returns; the subfolders are queued in listing order
LoaderExecute ==
    /\ pc = "loader"
    /\ queue # <<>>
    /\ LET d == Head(queue)
       IN /\ fs.dirs[d].init = "ok"
          /\ sys_modules' = sys_modules \cup {current_pkg(d)}
                                \cup Loaded(fs.dirs[d].exports)
          /\ executed' = Append(executed, d)
          /\ aliases' = CaptureExports(aliases, d, fs.dirs[d].exports)
          /\ \E listing \in SeqsOfSet(SubDirs(d)) :
                 queue' = Tail(queue) \o listing
    /\ UNCHANGED <<fs, pc, sys_path, original_modules, original_path,
                   references, files, folders, stack, root_folder, wi>>
    /\ UNCHANGED <<walkVars, fileVars>>

\* exec_module raises: the except clause around the whole loop logs it, and
\* the loop is left with the rest of the queue unvisited
LoaderRaise ==
    /\ pc = "loader"
    /\ queue # <<>>
    /\ LET d == Head(queue)
       IN /\ fs.dirs[d].init = "raises"
          /\ sys_modules' = sys_modules \cup {current_pkg(d)}
          /\ executed' = Append(executed, d)
          /\ queue' = Tail(queue)
    /\ pc' = "caught"
    /\ UNCHANGED <<fs, sys_path, original_modules, original_path, aliases,
                   references, files, folders, stack, root_folder, wi>>
    /\ UNCHANGED <<walkVars, fileVars>>

\* as if parse_init could return with directories still queued
LoaderExitEarly ==
    /\ \/ pc = "loader"
       \/ pc = "caught"
    /\ RestoreModules
    /\ pc' = "parse_folder"
    /\ UNCHANGED <<fs, queue, executed, aliases, references, files, folders,
                   stack, root_folder, wi>>
    /\ UNCHANGED <<walkVars, fileVars>>

\* parse_init returns (queue empty, or after the except clause) and
\* ManagedModules.__exit__ runs
LoaderExit ==
    /\ \/ pc = "loader" /\ queue = <<>>
       \/ pc = "caught"
    /\ RestoreModules
    /\ pc' = "parse_folder"
    /\ UNCHANGED <<fs, queue, executed, aliases, references, files, folders,
                   stack, root_folder, wi>>
    /\ UNCHANGED <<walkVars, fileVars>>

-----------------------------------------------------------------------------
(* ParsedProject.parse_folder, add_file_to_references *)

ParsedFolder(path) == [path |-> path, files |-> <<>>, subfolders |-> <<>>]

Entity(kind, path, idx) == [kind |-> kind, path |-> path, idx |-> idx]

\* the three filters on os.listdir: "." and "__" prefixes (the ".pyc" one
\* removes no directory and no ".py" module)
Hidden(name) == StartsWith(name, <<".">>) \/ StartsWith(name, <<"_", "_">>)

FileEntry(path) == [kind |-> "file", path |-> path]
DirEntry(path) == [kind |-> "dir", path |-> path]

Listing(d) ==
    {FileEntry(x) : x \in {x \in ModulesIn(d) : ~Hidden(x[Len(x)])}}
    \cup {DirEntry(x) : x \in {x \in SubDirs(d) : ~Hidden(x[Len(x)])}}

Frame(d) == [path |-> d, pending |-> Listing(d)]

\* path.replace(project_root, "")[1:-3], the first folder dropped, "." joined
parsed_suffix(path) == JoinAll(Tail(path))

\* later assignments to one key replace earlier ones
add_file_to_references(refs, file, suffix) ==
    LET prefix == Join(PackageName, suffix)
        r0 == DictSet(refs, prefix, Entity("File", file.path, 0))
        r1 == [k \in DOMAIN r0 \cup
                     {Join(prefix, file.functions[i].name) :
                         i \in 1..Len(file.functions)} |->
                 LET hits == {i \in 1..Len(file.functions) :
                                 Join(prefix, file.functions[i].name) = k}
                 IN IF hits = {} THEN r0[k]
                    ELSE Entity("Function", file.path,
                                CHOOSE i \in hits : \A j \in hits : j <= i)]
    IN [k \in DOMAIN r1 \cup
                 {Join(prefix, file.classes[i].name) :
                     i \in 1..Len(file.classes)} |->
          LET hits == {i \in 1..Len(file.classes) :
                          Join(prefix, file.classes[i].name) = k}
          IN IF hits = {} THEN r1[k]
             ELSE Entity("Class", file.path,
                         CHOOSE i \in hits : \A j \in hits : j <= i)]

\* model_post_init calls parse_folder(self.path)
ParseRoot ==
    /\ pc = "parse_folder"
    /\ stack = <<>>
    /\ stack' = <<Frame(RootDir)>>
    /\ folders' = DictSet(folders, RootDir, ParsedFolder(RootDir))
    /\ UNCHANGED <<fs, pc, sysVars, queue, executed, aliases, references,
                   files, root_folder, wi>>
    /\ UNCHANGED <<walkVars, fileVars>>

\* the isfile branch: parse_file, add_file_to_references, folder.files.append
ParseFile ==
    /\ pc = "parse_folder"
    /\ stack # <<>>
    /\ LET top == stack[Len(stack)]
       IN \E e \in top.pending :
            /\ e.kind = "file"
            /\ \E parsed_file \in
                     parse_file(fs.files[e.path], e.path, PackageName) :
                 /\ files' = DictSet(files, e.path, parsed_file)
                 /\ references' = add_file_to_references(
                        references, parsed_file, parsed_suffix(e.path))
            /\ folders' = [folders EXCEPT
                              ![top.path].files = Append(@, e.path)]
            /\ stack' = [stack EXCEPT ![Len(stack)].pending = @ \ {e}]
    /\ UNCHANGED <<fs, pc, sysVars, queue, executed, aliases, root_folder, wi>>
    /\ UNCHANGED <<walkVars, fileVars>>

\* the isdir branch: the recursive call
ParseSubfolder ==
    /\ pc = "parse_folder"
    /\ stack # <<>>
    /\ LET top == stack[Len(stack)]
       IN \E e \in top.pending :
            /\ e.kind = "dir"
            /\ stack' = Append([stack EXCEPT ![Len(stack)].pending = @ \ {e}],
                               Frame(e.path))
            /\ folders' = DictSet(folders, e.path, ParsedFolder(e.path))
    /\ UNCHANGED <<fs, pc, sysVars, queue, executed, aliases, references,
                   files, root_folder, wi>>
    /\ UNCHANGED <<walkVars, fileVars>>

\* "return folder": into the caller's subfolders.append, or into
\* self.root_folder
ParseReturn ==
    /\ pc = "parse_folder"
    /\ stack # <<>>
    /\ LET top == stack[Len(stack)]
       IN /\ top.pending = {}
          /\ stack' = SubSeq(stack, 1, Len(stack) - 1)
          /\ IF Len(stack) > 1
             THEN /\ folders' = [folders EXCEPT
                        ![stack[Len(stack) - 1].path].subfolders =
                            Append(@, top.path)]
                  /\ UNCHANGED <<pc, root_folder, wi>>
             ELSE /\ root_folder' = top.path
                  /\ pc' = "aliases"
                  /\ wi' = 1
                  /\ UNCHANGED folders
    /\ UNCHANGED <<fs, sysVars, queue, executed, aliases, references, files>>
    /\ UNCHANGED <<walkVars, fileVars>>

-----------------------------------------------------------------------------
(* resolve_project_aliases_and_references *)

RECURSIVE WalkFolders(_)
\* _walk_and_map: the files in the order fn is applied to them
WalkFolders(q) ==
    IF q = <<>> THEN <<>>
    ELSE folders[Head(q)].files
         \o WalkFolders(Tail(q) \o folders[Head(q)].subfolders)

FileOrder == WalkFolders(<<root_folder>>)

\* [self.aliases.get(d, d) for d in deps]
resolve_aliases(deps) == RewriteDeps(deps, aliases)

resolve_file_aliases(file) ==
    [file EXCEPT
        !.functions = [i \in 1..Len(@) |->
            [@[i] EXCEPT !.dependencies = resolve_aliases(@)]],
        !.classes = [i \in 1..Len(@) |->
            [@[i] EXCEPT !.dependencies = resolve_aliases(@)]],
        !.dependencies = resolve_aliases(@)]

ResolveFileAliases ==
    /\ pc = "aliases"
    /\ wi <= Len(FileOrder)
    /\ files' = [files EXCEPT ![FileOrder[wi]] = resolve_file_aliases(@)]
    /\ wi' = wi + 1
    /\ UNCHANGED <<fs, pc, sysVars, queue, executed, aliases, references,
                   folders, stack, root_folder>>
    /\ UNCHANGED <<walkVars, fileVars>>

\* the first _walk_and_map returns, the second starts
AliasesDone ==
    /\ pc = "aliases"
    /\ wi > Len(FileOrder)
    /\ pc' = "references"
    /\ wi' = 1
    /\ UNCHANGED <<fs, sysVars, queue, executed, aliases, references, files,
                   folders, stack, root_folder>>
    /\ UNCHANGED <<walkVars, fileVars>>

\* as if written {d: self.references[d] for d in deps if d in self.references}
resolve_refs_skip(deps) ==
    [raised |-> FALSE,
     refs |-> [d \in Range(deps) \cap DOMAIN references |-> references[d]]]

\* {d: self.references[d] for d in deps}: the dict, or the KeyError a
\* missing key raises
resolve_refs(deps) ==
    IF \E d \in Range(deps) : d \notin DOMAIN references
    THEN [raised |-> TRUE, refs |-> <<>>]
    ELSE [raised |-> FALSE, refs |-> [d \in Range(deps) |-> references[d]]]

\* the entities of a file in the order _resolve_file_references links them
LinkOrder(file) ==
    [i \in 1..Len(file.functions) |-> file.functions[i].dependencies]
    \o [i \in 1..Len(file.classes) |-> file.classes[i].dependencies]
    \o <<file.dependencies>>

\* how many of them are linked before a KeyError (all, if none is raised)
Linked(file) ==
    LET order == LinkOrder(file)
        bad == {i \in 1..Len(order) : resolve_refs(order[i]).raised}
    IN IF bad = {} THEN Len(order)
       ELSE (CHOOSE i \in bad : \A j \in bad : i <= j) - 1

\* as if the loop over file.classes were missing
resolve_file_references_no_classes(file) ==
    LET n == Linked(file)
        nf == Len(file.functions)
        nc == Len(file.classes)
        Link(e) == [e EXCEPT
                       !.dependency_refs = resolve_refs(e.dependencies).refs]
    IN [file EXCEPT
           !.functions = [i \in 1..nf |-> IF i <= n THEN Link(@[i]) ELSE @[i]],
           !.dependency_refs = IF n = nf + nc + 1
                               THEN resolve_refs(file.dependencies).refs
                               ELSE @]

resolve_file_references(file) ==
    LET n == Linked(file)
        nf == Len(file.functions)
        nc == Len(file.classes)
        Link(e) == [e EXCEPT
                       !.dependency_refs = resolve_refs(e.dependencies).refs]
    IN [file EXCEPT
           !.functions = [i \in 1..nf |-> IF i <= n THEN Link(@[i]) ELSE @[i]],
           !.classes = [i \in 1..nc |->
                           IF nf + i <= n THEN Link(@[i]) ELSE @[i]],
           !.dependency_refs = IF n = nf + nc + 1
                               THEN resolve_refs(file.dependencies).refs
                               ELSE @]

ResolveFileReferences ==
    /\ pc = "references"
    /\ wi <= Len(FileOrder)
    /\ LET file == files[FileOrder[wi]]
       IN /\ Linked(file) = Len(LinkOrder(file))
          /\ files' = [files EXCEPT ![FileOrder[wi]] =
                                       resolve_file_references(file)]
    /\ wi' = wi + 1
    /\ UNCHANGED <<fs, pc, sysVars, queue, executed, aliases, references,
                   folders, stack, root_folder>>
    /\ UNCHANGED <<walkVars, fileVars>>

\* the KeyError leaves model_post_init: construction fails
ReferenceMiss ==
    /\ pc = "references"
    /\ wi <= Len(FileOrder)
    /\ LET file == files[FileOrder[wi]]
       IN /\ Linked(file) < Len(LinkOrder(file))
          /\ files' = [files EXCEPT ![FileOrder[wi]] =
                                       resolve_file_references(file)]
    /\ pc' = "failed"
    /\ UNCHANGED <<fs, sysVars, queue, executed, aliases, references, folders,
                   stack, root_folder, wi>>
    /\ UNCHANGED <<walkVars, fileVars>>

\* model_post_init returns: the project is constructed
Constructed ==
    /\ pc = "references"
    /\ wi > Len(FileOrder)
    /\ pc' = "done"
    /\ UNCHANGED <<fs, sysVars, queue, executed, aliases, references, files,
                   folders, stack, root_folder, wi>>
    /\ UNCHANGED <<walkVars, fileVars>>

-----------------------------------------------------------------------------
(* The projects construction is checked on.  Package p holds the module    *)
(* p/m.py (the caller), optionally p/b.py, the package p/b with p/b/c.py   *)
(* (where g is defined), and beside p/b either a cache directory or the    *)
(* package p/d.                                                            *)

MaxCalls == 2

cName == <<"c">>
dName == <<"d">>
hName == <<"h">>
vName == <<"v">>
cacheName == <<"_", "_", "c">>

DirB == <<pName, bName>>
DirCache == <<pName, cacheName>>
DirD == <<pName, dName>>
ModM == <<pName, mName>>
ModB == <<pName, bName>>
ModC == <<pName, bName, cName>>

pbName == Join(pName, bName)
pbcName == Join(pbName, cName)

\* g as p/b/c.py defines it; a name listed in __all__ but never bound; a
\* constant, which has no __module__
ExportG == export(gName, TRUE, pbcName)
ExportUnbound == export(xName, FALSE, NoName)
ExportConstant == export(vName, TRUE, NoName)

RootInitializers ==
    { Initializer("none", <<>>), Initializer("raises", <<>>),
      Initializer("ok", <<>>),
      Initializer("ok", <<ExportUnbound, ExportConstant, ExportG>>) }

SubInitializers ==
    { Initializer("none", <<>>), Initializer("raises", <<>>),
      Initializer("ok", <<>>), Initializer("ok", <<ExportG>>) }

NoSource == <<>>
NoDir == Initializer("absent", <<>>)

ModCSources ==
    { NoSource,
      <<FunctionDefStmt(FlatFn(gName, <<>>))>>,
      <<FunctionDefStmt(FlatFn(gName, <<>>)), ClassDefStmt(gName, <<>>, <<>>)>> }

ModBSources == { NoSource, <<FunctionDefStmt(FlatFn(cName, <<>>))>> }

\* the import statements of p/m.py, or a local definition of g
Headers ==
    { <<ImportFromStmt(pName, <<alias(gName, NoName)>>, 0)>>,
      <<ImportFromStmt(pbName, <<alias(gName, NoName)>>, 0)>>,
      <<ImportFromStmt(pbcName, <<alias(gName, NoName)>>, 0)>>,
      <<ImportFromStmt(pName, <<alias(gName, NoName)>>, 0),
        ImportFromStmt(pbName, <<alias(gName, hName)>>, 0)>>,
      <<ImportFromStmt(pqName, <<alias(gName, NoName)>>, 0)>>,
      <<ImportFromStmt(qName, <<alias(gName, NoName)>>, 0)>>,
      <<ImportStmt(<<alias(pbcName, hName)>>)>>,
      <<FunctionDefStmt(FlatFn(gName, <<>>))>> }

\* the names a header binds
Bound(header) ==
    UNION {{IF header[i].stmt = "FunctionDef" THEN header[i].name
            ELSE IF header[i].names[j].asname # NoName
                 THEN header[i].names[j].asname
                 ELSE header[i].names[j].name :
               j \in 1..(IF header[i].stmt = "FunctionDef" THEN 1
                         ELSE Len(header[i].names))} :
              i \in 1..Len(header)}

\* def f(): at most MaxCalls calls, each of a name the header binds
CallLists(header) ==
    UNION {[1..n -> {Name(b) : b \in Bound(header)}] : n \in 1..MaxCalls}

ExampleClass ==
    ClassDefStmt(AName, <<>>,
        <<FlatFn(mName, <<Name(gName)>>), FlatFn(nName, <<SelfCall>>)>>)

ModMSources ==
    UNION {{h \o <<FunctionDefStmt(FlatFn(fName, calls))>> :
               calls \in CallLists(h)} : h \in Headers}
    \cup UNION {{h \o <<FunctionDefStmt(FlatFn(fName, <<Name(b)>>)),
                          ExampleClass>> : b \in Bound(h)} : h \in Headers}

DefinesG(source) ==
    /\ \E i \in 1..Len(source) : source[i].name = gName

Exports(init) == Range(init.exports)

Siblings == {DirCache :> Initializer("none", <<>>),
             DirD :> Initializer("ok", <<>>)}

Project(rootInit, subInit, sibling, srcM, srcB, srcC) ==
    [dirs |-> (RootDir :> rootInit) @@ sibling
              @@ (IF subInit = NoDir THEN <<>> ELSE (DirB :> subInit)),
     files |-> (ModM :> srcM)
               @@ (IF srcB = NoSource THEN <<>> ELSE (ModB :> srcB))
               @@ (IF srcC = NoSource THEN <<>> ELSE (ModC :> srcC))]

\* p/b/c.py needs the package directory p/b; an initializer exports g only
\* if p/b/c.py defines it
WellFormed(r, b, sc) ==
    /\ b = NoDir => sc = NoSource
    /\ ExportG \in Exports(r) \cup Exports(b) => DefinesG(sc)

Projects ==
    {Project(c[1], c[2], c[3], c[4], c[5], c[6]) :
        c \in {c \in RootInitializers \X (SubInitializers \cup {NoDir})
                      \X Siblings \X ModMSources \X ModBSources
                      \X ModCSources : WellFormed(c[1], c[2], c[6])}}

-----------------------------------------------------------------------------
(* Construction as a state machine *)

ProjectIdle ==
    /\ fs = <<>>
    /\ pc = "idle"
    /\ sys_modules = {}
    /\ sys_path = <<>>
    /\ original_modules = {}
    /\ original_path = <<>>
    /\ queue = <<>>
    /\ executed = <<>>
    /\ aliases = <<>>
    /\ references = <<>>
    /\ files = <<>>
    /\ folders = <<>>
    /\ stack = <<>>
    /\ root_folder = NoFolder
    /\ wi = 0

ProjectInit ==
    /\ fs \in Projects
    /\ pc = "parse_init"
    /\ sys_modules = {osName}
    /\ sys_path = <<SitePath>>
    /\ original_modules = {}
    /\ original_path = <<>>
    /\ queue = <<>>
    /\ executed = <<>>
    /\ aliases = <<>>
    /\ references = <<>>
    /\ files = <<>>
    /\ folders = <<>>
    /\ stack = <<>>
    /\ root_folder = NoFolder
    /\ wi = 0

-----------------------------------------------------------------------------
(* Specifications *)

WalkNext == WalkStep \/ WalkReturn

InitWalk == WalkInit /\ FileIdle /\ ProjectIdle

SpecWalk == InitWalk /\ [][WalkNext]_vars

FileNext ==
    \/ VisitFunctionDef
    \/ VisitClassDef
    \/ VisitImport
    \/ VisitImportFrom
    \/ ResolveImports

InitFile == FileInit /\ WalkIdle /\ ProjectIdle

SpecFile == InitFile /\ [][FileNext]_vars

Next ==
    \/ LoaderEnter
    \/ LoaderSkip
    \/ LoaderExecute
    \/ LoaderRaise
    \/ LoaderExit
    \/ ParseRoot
    \/ ParseFile
    \/ ParseSubfolder
    \/ ParseReturn
    \/ ResolveFileAliases
    \/ AliasesDone
    \/ ResolveFileReferences
    \/ ReferenceMiss
    \/ Constructed

Init == ProjectInit /\ WalkIdle /\ FileIdle

Spec == Init /\ [][Next]_vars

(* parse_init alone, on package trees three levels deep: p, beside it p/b  *)
(* and p/d, and p/b/e below p/b; every directory with or without an        *)
(* initializer, which runs or raises.                                      *)

eName == <<"e">>
DirE == <<pName, bName, eName>>

AtDir(d, init) == IF init = NoDir THEN <<>> ELSE (d :> init)

LoaderTrees ==
    {(RootDir :> c[1]) @@ AtDir(DirB, c[2]) @@ AtDir(DirD, c[3])
        @@ (IF c[2] = NoDir THEN <<>> ELSE AtDir(DirE, c[4])) :
        c \in RootInitializers \X (SubInitializers \cup {NoDir})
                  \X (SubInitializers \cup {NoDir})
                  \X (SubInitializers \cup {NoDir})}

LoaderInit ==
    /\ fs \in {[dirs |-> t, files |-> <<>>] : t \in LoaderTrees}
    /\ pc = "parse_init"
    /\ sys_modules = {osName}
    /\ sys_path = <<SitePath>>
    /\ original_modules = {}
    /\ original_path = <<>>
    /\ queue = <<>>
    /\ executed = <<>>
    /\ aliases = <<>>
    /\ references = <<>>
    /\ files = <<>>
    /\ folders = <<>>
    /\ stack = <<>>
    /\ root_folder = NoFolder
    /\ wi = 0

LoaderNext ==
    \/ LoaderEnter
    \/ LoaderSkip
    \/ LoaderExecute
    \/ LoaderRaise
    \/ LoaderExit

InitLoader == LoaderInit /\ WalkIdle /\ FileIdle

SpecLoader == InitLoader /\ [][LoaderNext]_vars

-----------------------------------------------------------------------------
(* Properties *)

\* the dependency lists of a file's top-level functions, its classes and
\* the file itself, with their dependency_refs
TopEntities(file) ==
    [i \in 1..Len(file.functions) |->
        [dependencies |-> file.functions[i].dependencies,
         dependency_refs |-> file.functions[i].dependency_refs]]
    \o [i \in 1..Len(file.classes) |->
        [dependencies |-> file.classes[i].dependencies,
         dependency_refs |-> file.classes[i].dependency_refs]]
    \o <<[dependencies |-> file.dependencies,
          dependency_refs |-> file.dependency_refs]>>

\* the dependency lists of the methods of a file's classes
MethodDeps(file) ==
    Concat([i \in 1..Len(file.classes) |->
              [j \in 1..Len(file.classes[i].methods) |->
                  file.classes[i].methods[j].dependencies]])

\* the modules the folder walk reaches
WalkedModules == {x \in DOMAIN fs.files : \A k \in 2..Len(x) : ~Hidden(x[k])}

ModuleKey(x) == JoinAll(<<PackageName>> \o Tail(x))

\* <package>.<module-dotted-path>[.<entity-name>] of every module and of
\* every function and class defined at its top level
CanonicalPaths ==
    UNION {{ModuleKey(x)} \cup
           {Join(ModuleKey(x), fs.files[x][i].name) :
               i \in {i \in 1..Len(fs.files[x]) :
                         fs.files[x][i].stmt \in {"FunctionDef", "ClassDef"}}} :
              x \in WalkedModules}

\* a file as the visitor leaves it, before resolve_imports
Extracted(x) == VisitAll(FileParser(x, PackageName), fs.files[x])

\* C1 as stated: once construction has completed, every dependency string
\* of every File, Function (top-level or method) and Class is a canonical
\* in-project path.
C1_AllCanonical ==
    pc = "done" =>
        \A x \in DOMAIN files :
            /\ \A i \in 1..Len(TopEntities(files[x])) :
                   Range(TopEntities(files[x])[i].dependencies)
                       \subseteq CanonicalPaths
            /\ \A i \in 1..Len(MethodDeps(files[x])) :
                   Range(MethodDeps(files[x])[i]) \subseteq CanonicalPaths

\* C1 amended: once construction has completed, every dependency string of
\* every File, top-level Function and Class is a canonical in-project path;
\* the lists of class methods are the ones extraction left.
C1_TopLevelCanonical ==
    pc = "done" =>
        \A x \in DOMAIN files :
            /\ \A i \in 1..Len(TopEntities(files[x])) :
                   Range(TopEntities(files[x])[i].dependencies)
                       \subseteq CanonicalPaths
            /\ MethodDeps(files[x]) = MethodDeps(Extracted(x).file)

\* construction completed for a project in which a top-level function's raw
\* mention was rewritten and a method kept a raw one
C1_Witness ==
    /\ pc = "done"
    /\ \E x \in DOMAIN files :
         /\ \E i \in 1..Len(files[x].functions) :
              /\ files[x].functions[i].dependencies # <<>>
              /\ files[x].functions[i].dependencies
                     # Extracted(x).file.functions[i].dependencies
    /\ \E x \in DOMAIN files :
         \E i \in 1..Len(MethodDeps(files[x])) : MethodDeps(files[x])[i] # <<>>

RECURSIVE EntityCount(_)
\* Files, top-level Functions and top-level Classes of the files listed
EntityCount(paths) ==
    IF paths = <<>> THEN 0
    ELSE 1 + Len(files[Head(paths)].functions)
           + Len(files[Head(paths)].classes) + EntityCount(Tail(paths))

\* C3 as stated: after the folder walk the reference index has as many keys
\* as there are parsed Files, top-level Functions and top-level Classes (no
\* registration has replaced another).
C3_OneEntryPerEntity ==
    pc \in {"aliases", "references", "done", "failed"} =>
        Cardinality(DOMAIN references) = EntityCount(FileOrder)

\* C4 as stated: the dependencies list of every Function, Class and File
\* never holds a string twice, at extraction and after resolve_imports.
C4_NoDuplicates ==
    fpc \in {"visiting", "resolved"} =>
        /\ \A i \in 1..Len(TopEntities(parser.file)) :
               NoDuplicates(TopEntities(parser.file)[i].dependencies)
        /\ \A i \in 1..Len(MethodDeps(parser.file)) :
               NoDuplicates(MethodDeps(parser.file)[i])

\* the re-exports of the project: the short path a package initializer
\* exposes and the path of the definition
ReExports ==
    {r \in UNION {{[short |-> Join(pkg_from_path(d), fs.dirs[d].exports[i].name),
                    full |-> Join(fs.dirs[d].exports[i].module,
                                  fs.dirs[d].exports[i].name)] :
                      i \in {i \in 1..Len(fs.dirs[d].exports) :
                                /\ fs.dirs[d].exports[i].item
                                /\ fs.dirs[d].exports[i].module # NoName}} :
                     d \in DOMAIN fs.dirs} : r.short # r.full}

\* the re-exports function i of module x calls: a called name that the
\* module's imports bind to the short path
CalledReExports(x, i) ==
    LET ps == Extracted(x)
    IN {r \in ReExports :
           \E n \in Range(ps.file.functions[i].dependencies) :
              n \in DOMAIN ps.aliases /\ ps.aliases[n] = r.short}

RECURSIVE TopPackage(_)
TopPackage(d) ==
    IF d = <<>> \/ Head(d) = "." THEN <<>> ELSE <<Head(d)>> \o TopPackage(Tail(d))

\* C6 as stated: after resolve_imports no Function, Class or File depends on
\* an import target outside the analyzed package.
C6_ForeignDropped ==
    fpc = "resolved" =>
        \A i \in 1..Len(TopEntities(parser.file)) :
            \A d \in Range(TopEntities(parser.file)[i].dependencies) :
                d \in Range(VisitAll(FileParser(ModulePath, PackageName),
                                     src).imports)
                    => TopPackage(d) = PackageName

\* C7 as stated: when the loader has finished, no package with an
\* initializer that was waiting in the walk has been left unexecuted.
C7_WalkContinues ==
    pc \notin {"parse_init", "loader", "caught"} =>
        \A i \in 1..Len(queue) :
            fs.dirs[queue[i]].init # "none" => queue[i] \in Range(executed)

InitialModules == {osName}
InitialPath == <<SitePath>>

\* C8: once the loader has finished, normally or after an initializer
\* raised, sys.modules and sys.path are what they were before it started.
C8_Restored ==
    pc \notin {"parse_init", "loader", "caught"} =>
        /\ sys_modules = InitialModules
        /\ sys_path = InitialPath

\* the loader has finished after an initializer raised, with modules
\* registered during the walk
C8_Witness ==
    /\ pc = "parse_folder"
    /\ Len(executed) > 1
    /\ fs.dirs[executed[Len(executed)]].init = "raises"

\* the ClassDef statements visited so far, in order
ClassStmts ==
    FilterSeq(SubSeq(src, 1, spos - 1),
              {n \in Range(src) : n.stmt = "ClassDef"})

\* the self.<name> calls in a method body, rendered
SelfCalls(t) ==
    {Join(SELF, t[i].func[3]) :
        i \in {i \in 1..Len(t) :
                  /\ t[i].kind = "Call"
                  /\ IsAttribute(t[i].func)
                  /\ IsName(t[i].func[2])
                  /\ t[i].func[2][2] = SELF}}

RECURSIVE WithoutSelf(_)
WithoutSelf(deps) ==
    IF deps = <<>> THEN <<>>
    ELSE (IF StartsWith(Head(deps), SelfDot) THEN <<>> ELSE <<Head(deps)>>)
         \o WithoutSelf(Tail(deps))

C10_InnerCalleeSkipped ==
    wpc = "returned" => \A i \in 1..Len(fdeps) : fdeps[i] \notin InnerDefs(tree)

\* C11 as stated: every parsed class has one parent_classes entry per
\* base-class expression, in declaration order: the dotted string of a name
\* or attribute chain, and the "<unknown>" sentinel for any other expression.
C11_OneEntryPerBase ==
    fpc \in {"visiting", "resolved"} =>
        \A k \in 1..Len(parser.file.classes) :
            parser.file.classes[k].parent_classes =
                [i \in 1..Len(ClassStmts[k].bases) |->
                    get_attribute_string(ClassStmts[k].bases[i])]

\* the file of module x after the per-file pass (rewrite and filter, by the
\* module's own imports and aliases) and the global alias substitution are
\* applied to it once more; the file's own list is left aside, its order
\* being whatever list(set(...)) gives
ResolvedAgain(x) ==
    resolve_file_aliases(
        ResolveEntities([Extracted(x) EXCEPT !.file = files[x]]).file)

EntityDeps(file) ==
    [i \in 1..Len(file.functions) |-> file.functions[i].dependencies]
    \o [i \in 1..Len(file.classes) |-> file.classes[i].dependencies]

\* C12 as stated: on a constructed project, running the resolution passes
\* again leaves the dependencies of every Function and Class unchanged, and
\* the File's dependencies the same strings.
C12_FixedPoint ==
    pc = "done" =>
        \A x \in DOMAIN files :
            /\ EntityDeps(ResolvedAgain(x)) = EntityDeps(files[x])
            /\ Range(resolve_aliases(AllDependencies(ResolvedAgain(x))))
                   = Range(files[x].dependencies)

\* the immediate subdirectories of d that hold an __init__.py and whose
\* name does not start with a double underscore
SubPackages(d) ==
    {x \in SubDirs(d) : /\ fs.dirs[x].init # "none"
                        /\ ~StartsWith(x[Len(x)], <<"_", "_">>)}

\* C13 as stated: once the folder walk has returned, every Folder it built
\* lists exactly its directory's subpackages as subfolders, each once.
C13_SubfoldersAreSubpackages ==
    pc \in {"aliases", "references", "failed", "done"} =>
        \A d \in DOMAIN folders :
            /\ Range(folders[d].subfolders) = SubPackages(d)
            /\ NoDuplicates(folders[d].subfolders)

\* the names of the functions and classes a file defines
DefinedNames(file) ==
    {file.functions[i].name : i \in 1..Len(file.functions)}
    \cup {file.classes[i].name : i \in 1..Len(file.classes)}

\* C14 as stated, for the survivors that are names of functions or classes
\* of the same file: once the per-file pass and the global alias
\* substitution have run, each of them left on a File, top-level Function
\* or Class is a key of the reference index.
C14_SurvivorsAreKeys ==
    pc \in {"references", "failed", "done"} =>
        \A x \in DOMAIN files :
            \A k \in 1..Len(TopEntities(files[x])) :
                Range(TopEntities(files[x])[k].dependencies)
                        \cap DefinedNames(files[x])
                    \subseteq DOMAIN references

\* the loader has returned: its queue is exhausted or an initializer raised,
\* and the registry and search path are restored
LoaderFinished ==
    /\ \/ queue = <<>>
       \/ /\ executed # <<>>
          /\ fs.dirs[executed[Len(executed)]].init = "raises"
    /\ sys_modules = InitialModules
    /\ sys_path = InitialPath

\* C15 as stated, for its first two stages: no initializer is executed
\* before every source file has been parsed.
C15_ParseBeforeLoader ==
    executed # <<>> => DOMAIN files = WalkedModules

\* C15, amended: the stages run in the order loader, folder walk, alias
\* rewrite, linking, each completed before the next begins.  Initializers
\* run and exports are captured only while nothing is parsed; the folder
\* walk runs only after the loader has returned; the alias rewrite touches
\* a file only when every module is parsed; linking touches a file only
\* when every file has been through the alias rewrite.
C15_LoaderThenParse ==
    [][/\ (executed' # executed \/ aliases' # aliases) =>
              /\ files = <<>>
              /\ folders = <<>>
       /\ (folders' # folders \/ DOMAIN files' # DOMAIN files) =>
              /\ pc = "parse_folder"
              /\ LoaderFinished
       /\ (pc = "aliases" /\ files' # files) =>
              /\ stack = <<>>
              /\ DOMAIN files = WalkedModules
       /\ (pc = "references" /\ files' # files) =>
              \A x \in DOMAIN files : resolve_file_aliases(files[x]) = files[x]
      ]_vars

\* a constructed project whose loader executed two initializers and
\* captured an export, and whose walk parsed two modules
C15_Witness ==
    /\ pc = "done"
    /\ Len(executed) >= 2
    /\ aliases # <<>>
    /\ Cardinality(DOMAIN files) >= 2

\* an initializer is about to be executed: the loader popped nothing yet
\* from a queue whose head has an __init__.py
AboutToExecute ==
    /\ pc = "loader"
    /\ queue # <<>>
    /\ fs.dirs[Head(queue)].init # "none"

\* C16 as stated: when an initializer starts executing, the registry and
\* the search path hold nothing a previously executed initializer added.
C16_ScopedPerInitializer ==
    AboutToExecute =>
        /\ sys_modules \subseteq InitialModules
        /\ Range(sys_path) \subseteq Range(InitialPath) \cup {ProjectRootEntry}

\* C17: the initializers are executed in breadth-first order (never one of
\* a shallower package after one of a deeper package), and when the
\* initializer of P is executed every ancestor package of P has had its own
\* initializer executed and is in sys.modules under its qualified name.
C17_BreadthFirstAncestors ==
    [][executed' # executed =>
          LET d == executed'[Len(executed')]
          IN /\ \A i \in 1..Len(executed) : Len(executed[i]) <= Len(d)
             /\ \A k \in 1..(Len(d) - 1) :
                   LET anc == SubSeq(d, 1, k)
                   IN /\ anc \in Range(executed)
                      /\ fs.dirs[anc].init = "ok"
                      /\ current_pkg(anc) \in sys_modules
      ]_vars

\* p/b/e was executed, after p, p/b and p/d
C17_Witness ==
    /\ Len(executed) = 4
    /\ executed[4] = DirE
    /\ DirD \in Range(executed)

====
